---------------------------- MODULE Spec2Model ----------------------------
(***************************************************************************)
(* rwth.py: scrape queue positions, store them in MySQL, project an ETA    *)
(* per room by linear regression and order the graph's legend.             *)
(*                                                                         *)
(* Four specifications share this module:                                  *)
(*   Spec       concurrent runs of scrape_queue_positions' loop body       *)
(*              (get_or_create_room_id, create_or_update_entry) on one     *)
(*              room and one date, against an InnoDB database              *)
(*   SpecMain   main's loop over the users                                 *)
(*   SpecProj   draw_room_line / compute_regression / regress on a room's  *)
(*              history                                                    *)
(*   SpecGraph  draw_graph's loop over rooms and decorate_graph's legend   *)
(*              order                                                      *)
(* Dates are proleptic Gregorian ordinals (date.toordinal()), None is the  *)
(* empty tuple and a present value v is <<v>>.  Rationals are pairs        *)
(* <<numerator, denominator>> in lowest terms with a positive denominator. *)
(***************************************************************************)
EXTENDS Integers, Sequences, FiniteSets, TLC

VARIABLES
    \* ---- ingestion (get_or_create_room_id, create_or_update_entry) ----
    site,           \* the room's row on the website: typestr, description
    cpc,            \* where each caller stands
    rec,            \* each caller's RoomRecord: room_id, capacity, pos
    update,         \* each caller's args.update
    existing_row,   \* each caller's fetchone() in create_or_update_entry
    outcome,        \* how each caller's last call ended
    wrote,          \* whether the caller's call issued an insert or update
                    \* on entry
    isolation,      \* each session's transaction isolation level
    runs,           \* how many rows each caller has started on
    room,           \* table room: rows [id, ext_id, tx], tx = 0 committed
    room_autoinc,   \* table room's next AUTO_INCREMENT value
    entry,          \* table entry: rows [room_id, capacity, pos, tx]
    locks,          \* InnoDB locks on entry's unique index
    first_vals,     \* (capacity, pos) of the insert that created the row
    updated,        \* whether an UPDATE has changed the row since
    \* ---- main ----
    mpc,            \* where main stands
    args,           \* the command line: scrape, graph
    fault,          \* per user, the step that raises for that user, if any
    ui,             \* the user main's loop is at (1 is the first)
    ri,             \* the row or room the user's step is at
    scraped,        \* <<user, row>>: the row's observation went to the db
    drawn,          \* <<user, room>>: the room's lines are in the plot
    graphed,        \* users whose graph was shown or saved
    \* ---- projection (draw_room_line) ----
    ppc,            \* "fetched" | "drawn" | "raised"
    exc,            \* the exception draw_room_line raised, or "None"
    room_type,      \* the room's type, as stored
    room_description,   \* the room's description, as stored
    rows,           \* the room's history: sequence of <<date, pos>>, by date
    rl,             \* Regression(m, c, eta, deta_1d, deta_1w)
    fit,            \* what regress computed on the way, for delta_days = 0
    \* ---- legend (draw_graph, decorate_graph) ----
    gpc,            \* "rooms" | "decorated"
    legend_order,   \* draw_graph's `order`: sequence of LegendItem(eta, idx)
    legend          \* decorate_graph's `order`: the sorted legend

ingestVars == <<site, cpc, rec, update, existing_row, outcome, wrote,
                isolation, runs, room, room_autoinc, entry, locks,
                first_vals, updated>>

projVars == <<ppc, exc, room_type, room_description, rows, rl, fit>>
graphVars == <<gpc, legend_order, legend>>

mainVars == <<mpc, args, fault, ui, ri, scraped, drawn, graphed>>

vars == <<ingestVars, mainVars, projVars, graphVars>>

\* What an action of one part leaves alone
notIngest == <<mainVars, projVars, graphVars>>
notMain == <<ingestVars, projVars, graphVars>>
notProj == <<ingestVars, mainVars, graphVars>>
notGraph == <<ingestVars, mainVars, projVars>>

----------------------------------------------------------------------------
(* Bounds and program constants *)

NumUsers == 3           \* rows of table user
NumRows == 2            \* rooms a user queues for
NumCallers == 2         \* concurrent runs of the script
MaxRuns == 2            \* rows a caller works through, one after the other
MaxLen == 4             \* longest history of a room
MaxRooms == 3           \* most rooms of one user in the legend

StepDate == 738849      \* dt.date(2023, 11, 25).toordinal()
LegendSentinel == 802804 \* dt.date(2199, 1, 1).toordinal()
InvEps == 100000000     \* 1 / 1e-8
DateMin == 1            \* dt.date.min.toordinal(): 0001-01-01
DateMax == 3652059      \* dt.date.max.toordinal(): 9999-12-31

None == <<>>
Some(v) == <<v>>

\* Dates a history may hold: around the hard-coded step date, two pairs ten
\* days apart.
Dates == {StepDate - 10, StepDate - 3, StepDate - 1, StepDate, StepDate + 1,
          StepDate + 7}
Positions == {50, 100, 130}

\* A long queue that moves by one place in a hundred days: its line reaches
\* zero thousands of years away, before year 1 or after year 9999
LongQueueDates == {StepDate - 100, StepDate}
LongQueuePositions == {30000, 30001}

----------------------------------------------------------------------------
(* Exact arithmetic *)

Abs(x) == IF x < 0 THEN -x ELSE x

RECURSIVE GCD(_, _)
GCD(a, b) == IF b = 0 THEN a ELSE GCD(b, a % b)

\* n/d in lowest terms, d # 0
Rat(n, d) ==
    LET g == GCD(Abs(n), Abs(d))
        s == IF d < 0 THEN -1 ELSE 1
    IN  <<(s * n) \div g, (s * d) \div g>>

\* int(round(x)) for the float x the code computes where the exact quotient
\* is p/q, q > 0.  x is within rounding error of p/q: away from a half the
\* result is the nearest integer; where p/q is exactly k + 1/2 the float
\* falls on either side of the half or on it, and the result is k or k + 1
\* as the rounding errors of the fit decide (`up`).
Round(p, q, up) ==
    LET f == p \div q
        r == p - f * q
    IN  IF 2 * r < q THEN f
        ELSE IF 2 * r > q THEN f + 1
        ELSE IF up THEN f + 1 ELSE f

RECURSIVE SumTo(_, _)
SumTo(f, n) == IF n = 0 THEN 0 ELSE f[n] + SumTo(f, n - 1)

----------------------------------------------------------------------------
(* bisect, dates_to_ints, np.polyfit(deg=1) *)

\* bisect.bisect_right(a, x) on a sorted sequence: how many elements are <= x
bisect_right(a, x) == Cardinality({i \in 1..Len(a) : a[i] <= x})

\* bisect.bisect_left(a, x) on a sorted sequence: how many elements are < x
bisect_left(a, x) == Cardinality({i \in 1..Len(a) : a[i] < x})

dates_to_ints(base, dates) == [i \in 1..Len(dates) |-> dates[i] - base]

\* Ordinary least squares y = m x + c over at least two points with distinct
\* x, as exact rationals.
polyfit(x, y) ==
    LET n   == Len(x)
        Sx  == SumTo(x, n)
        Sy  == SumTo(y, n)
        Sxx == SumTo([i \in 1..n |-> x[i] * x[i]], n)
        Sxy == SumTo([i \in 1..n |-> x[i] * y[i]], n)
        D   == n * Sxx - Sx * Sx
        N   == n * Sxy - Sx * Sy
    IN  [m |-> Rat(N, D), c |-> Rat(Sy * D - N * Sx, n * D)]

----------------------------------------------------------------------------
(* regress *)

\* StepCorrection with the fault of measuring the step one observation
\* earlier: between the first observation at or after the step date and the
\* one before it.
StepCorrectionEarlier(dates_ltd, p) ==
    LET bis_step == bisect_left(dates_ltd, StepDate)
    IN  IF bis_step # 0 /\ bis_step < Len(dates_ltd) - 1
        THEN LET step == p[bis_step + 1] - p[bis_step]
             IN  [step |-> step,
                  positions_ltd |->
                      [j \in 1..Len(p) |->
                          IF j >= bis_step + 1 THEN p[j] - step ELSE p[j]]]
        ELSE [step |-> 0, positions_ltd |-> p]

\* lines 245-250: the step and the series with the step taken out.
\* Python indexes from 0: positions_ltd[k] is p[k + 1] here.
StepCorrection(dates_ltd, p) ==
    LET bis_step == bisect_left(dates_ltd, StepDate)
    IN  IF bis_step # 0 /\ bis_step < Len(dates_ltd) - 1
        THEN LET step == p[bis_step + 2] - p[bis_step + 1]
             IN  [step |-> step,
                  positions_ltd |->
                      [j \in 1..Len(p) |->
                          IF j >= bis_step + 2 THEN p[j] - step ELSE p[j]]]
        ELSE [step |-> 0, positions_ltd |-> p]

\* lines 252-259: the fit, or the constant line through a single point
FitLine(min_date, dates_ltd, positions_ltd) ==
    IF Len(dates_ltd) > 1
    THEN polyfit(dates_to_ints(min_date, dates_ltd), positions_ltd)
    ELSE [m |-> <<0, 1>>, c |-> <<positions_ltd[1], 1>>]

\* abs(m) > 1e-8
Steep(m) == m[1] # 0 /\ (m[2] \div Abs(m[1])) < InvEps

\* line 269: min_date + round(-c / m) days, if abs(m) > 1e-8.  The day may
\* lie outside the dates datetime.date can hold (see EtaOverflows).
Eta(min_date, m, c, up) ==
    IF Steep(m)
    THEN LET q == Rat(-(c[1] * m[2]), c[2] * m[1])
         IN  Some(min_date + Round(q[1], q[2], up))
    ELSE None

\* line 269: min_date + dt.timedelta(days=...) raises OverflowError ("date
\* value out of range") when the day is before 0001-01-01 or after
\* 9999-12-31
EtaOverflows(min_date, m, c, up) ==
    LET eta == Eta(min_date, m, c, up)
    IN  eta # None /\ (eta[1] < DateMin \/ eta[1] > DateMax)

\* Window with the fault of bisect_left: observations dated `at` fall out.
WindowLeft(dates, at) == bisect_left(dates, at)

\* line 237: how many observations lie at or before `at`
Window(dates, at) == bisect_right(dates, at)

\* lines 234-270.  ties[n] is the side the float quotient of line 269 falls
\* on for the window of the first n observations, should the exact quotient
\* be a half: the floats are a function of the window, so equal windows
\* round alike.
regress(dates, positions, max_date, delta_days, ties) ==
    LET at  == max_date - delta_days
        bis == Window(dates, at)
    IN  IF bis = 0
        THEN [raised |-> FALSE, m |-> None, c |-> None, eta |-> None,
              step |-> 0,
              dates_ltd |-> <<>>, series |-> <<>>, positions_ltd |-> <<>>,
              fit_m |-> None, fit_c |-> None]
        ELSE
        LET min_date  == dates[1]
            dates_ltd == SubSeq(dates, 1, bis)
            series    == SubSeq(positions, 1, bis)
            sc        == StepCorrection(dates_ltd, series)
            line      == FitLine(min_date, dates_ltd, sc.positions_ltd)
            m         == line.m
            c         == Rat(line.c[1] + sc.step * line.c[2], line.c[2])
        IN  IF EtaOverflows(min_date, m, c, ties[bis])
            THEN \* OverflowError: nothing is returned
                 [raised |-> TRUE, m |-> None, c |-> None, eta |-> None,
                  step |-> 0,
                  dates_ltd |-> <<>>, series |-> <<>>, positions_ltd |-> <<>>,
                  fit_m |-> None, fit_c |-> None]
            ELSE [raised |-> FALSE, m |-> Some(m), c |-> Some(c),
                  eta |-> Eta(min_date, m, c, ties[bis]),
                  step |-> sc.step, dates_ltd |-> dates_ltd,
                  series |-> series, positions_ltd |-> sc.positions_ltd,
                  fit_m |-> Some(line.m), fit_c |-> Some(line.c)]

\* lines 278-279
DeltaEta(eta, eta_before) ==
    IF eta # None /\ eta_before # None
    THEN Some(eta[1] - eta_before[1]) ELSE None

\* lines 278-281, of what the three calls of regress gave
Regression(r0, r1, r7) ==
        IF r0.raised \/ r1.raised \/ r7.raised
        THEN \* the OverflowError of regress passes through
             [raised |-> TRUE, m |-> None, c |-> None, eta |-> None,
              deta_1d |-> None, deta_1w |-> None]
        ELSE [raised |-> FALSE, m |-> r0.m, c |-> r0.c, eta |-> r0.eta,
              deta_1d |-> DeltaEta(r0.eta, r1.eta),
              deta_1w |-> DeltaEta(r0.eta, r7.eta)]

\* lines 273-281
compute_regression(dates, positions, max_date, ties) ==
    Regression(regress(dates, positions, max_date, 0, ties),
               regress(dates, positions, max_date, 1, ties),
               regress(dates, positions, max_date, 7, ties))

----------------------------------------------------------------------------
(* abbrev_room, on descriptions as sequences of characters *)

\* The descriptions a scraped row may carry: one with a parenthesised part,
\* one the regular expression matches, one it does not match
DescParen   == <<"H", "a", "u", "s", " ", "7", " ", "(", "K", "a", "W", "o", ")">>
DescPattern == <<"T", "u", "r", "m", "s", "t", "r", " ", "1", "2", "-", "4", "b">>
DescOther   == <<"7", " ", "T", "u", "r", "m">>
Descriptions == {DescParen, DescPattern, DescOther}

\* [a-zäöüß] under re.I, \s, [\d-]: as far as the descriptions above need
Letters == {"H", "a", "u", "s", "K", "W", "o", "T", "r", "m", "t", "b"}
Spaces == {" "}
DigitsDash == {"0", "1", "2", "3", "4", "5", "6", "7", "8", "9", "-"}

\* lines 208-212
types == [Wohngemeinschaft |-> "WG", Einzelzimmer |-> "EZ",
          Einzelapartment |-> "EA"]

\* The type strings a scraped row may carry: one of `types`, one not
TypeStrs == {"Einzelzimmer", "Doppelzimmer"}

\* How many elements of d, from position i on, lie in class C without a gap
RECURSIVE RunLength(_, _, _)
RunLength(d, i, C) ==
    IF i <= Len(d) /\ d[i] \in C THEN 1 + RunLength(d, i + 1, C) ELSE 0

Min(a, b) == IF a < b THEN a ELSE b

\* re.search(r'^([a-zäöüß]{2,5})[a-zäöüß\s]*([\d-]*)', description, re.I)
\* every quantifier is greedy and what follows can match the empty string,
\* so the first attempt is the match
ReSearch(d) ==
    LET n1 == Min(RunLength(d, 1, Letters), 5)
        n2 == RunLength(d, n1 + 1, Letters \cup Spaces)
        n3 == RunLength(d, n1 + n2 + 1, DigitsDash)
    IN  IF RunLength(d, 1, Letters) < 2 THEN None
        ELSE Some([group1 |-> SubSeq(d, 1, n1),
                   group2 |-> SubSeq(d, n1 + n2 + 1, n1 + n2 + n3)])

\* str.ljust(width)
ljust(str, width) ==
    str \o [i \in 1..(IF Len(str) < width THEN width - Len(str) ELSE 0) |-> " "]

\* lines 206-226.  The result is Some(label), or None where types[type]
\* raises KeyError.
abbrev_room(type, description) ==
    LET opens == {i \in 1..Len(description) : description[i] = "("}
        descr ==
            IF opens # {}
            THEN LET pos_open_bracket == CHOOSE i \in opens :
                                            \A j \in opens : j <= i
                 IN  SubSeq(description, pos_open_bracket + 1,
                            Len(description) - 1)
            ELSE LET m == ReSearch(description)
                 IN  IF m = None
                     THEN SubSeq(description, 1, Min(10, Len(description)))
                     ELSE m[1].group1 \o <<" ">> \o m[1].group2
    IN  IF type \in DOMAIN types
        THEN Some(ljust(descr, 11) \o <<" ", types[type]>>)
        ELSE None

----------------------------------------------------------------------------
(* SpecProj: draw_room_line on one room's history *)

RECURSIVE SetToSortedSeq(_)
SetToSortedSeq(S) ==
    IF S = {} THEN <<>>
    ELSE LET lo == CHOOSE x \in S : \A y \in S : x <= y
         IN  <<lo>> \o SetToSortedSeq(S \ {lo})

\* The histories over the dates of D, at most n of them, with positions of P
HistoriesOver(D, P, n) ==
    UNION { { [i \in 1..Cardinality(S) |-> <<SetToSortedSeq(S)[i], ps[i]>>] :
                ps \in [1..Cardinality(S) -> P] } :
            S \in {T \in SUBSET D : Cardinality(T) \in 1..n} }

\* "select date, pos from entry where room_id = %s order by date": one row
\* per date (the unique key), by date.
Histories ==
    HistoriesOver(Dates, Positions, MaxLen)
        \cup HistoriesOver(LongQueueDates, LongQueuePositions, MaxLen)

RowDates(r) == [i \in 1..Len(r) |-> r[i][1]]
RowPositions(r) == [i \in 1..Len(r) |-> r[i][2]]

NoRegression == [raised |-> FALSE, m |-> None, c |-> None, eta |-> None,
                 deta_1d |-> None, deta_1w |-> None]
NoFit == [k \in {0, 1, 7} |-> None]

\* How the float quotient of line 269 may fall at an exact half, for each
\* of the windows compute_regression has regress fit (by their lengths)
Ties(dates, max_date) ==
    [{Window(dates, max_date - k) : k \in {0, 1, 7}} \ {0} -> BOOLEAN]

\* lines 369-373: the room's type and description and its rows
InitProj ==
    /\ ppc = "fetched"
    /\ exc = "None"
    /\ room_type \in TypeStrs
    /\ room_description \in Descriptions
    /\ rows \in Histories
    /\ rl = NoRegression
    /\ fit = NoFit

\* lines 296-318.  The regression comes first (304), and the OverflowError
\* of regress is not caught; then the label (307), whose abbrev_room raises
\* KeyError for a type it does not know.  Either way nothing is plotted and
\* nothing returned.
draw_room_line ==
    /\ ppc = "fetched"
    /\ \E ties \in Ties(RowDates(rows), rows[Len(rows)][1]) :
          LET dates     == RowDates(rows)
              positions == RowPositions(rows)
              max_date  == dates[Len(dates)]
              r         == [k \in {0, 1, 7} |->
                               regress(dates, positions, max_date, k, ties)]
              reg       == Regression(r[0], r[1], r[7])
          IN  IF reg.raised
              THEN /\ ppc' = "raised" /\ exc' = "OverflowError"
                   /\ UNCHANGED <<rl, fit>>
              ELSE IF abbrev_room(room_type, room_description) = None
              THEN /\ ppc' = "raised" /\ exc' = "KeyError"
                   /\ UNCHANGED <<rl, fit>>
              ELSE /\ rl' = reg
                   /\ fit' = [k \in {0, 1, 7} |-> Some(r[k])]
                   /\ ppc' = "drawn" /\ exc' = exc
    /\ UNCHANGED <<room_type, room_description, rows, notProj>>

----------------------------------------------------------------------------
(* SpecGraph: draw_graph collects one LegendItem per room, decorate_graph   *)
(* sorts them                                                               *)

\* An eta draw_room_line may return: a date before, at or after the sentinel
EtaValues == {LegendSentinel - 400, LegendSentinel - 30, LegendSentinel,
              LegendSentinel + 5}

\* key=lambda x: x.eta if x.eta is not None else dt.date(2199, 1, 1)
SortKey(item) == IF item.eta # None THEN item.eta[1] ELSE LegendSentinel

\* Whether a sorts strictly before b
Before(a, b, reverse) ==
    IF reverse THEN SortKey(a) > SortKey(b) ELSE SortKey(a) < SortKey(b)

\* x put behind every element that sorts before it or ties with it
RECURSIVE InsertBy(_, _, _)
InsertBy(x, s, reverse) ==
    IF s = <<>> THEN <<x>>
    ELSE IF Before(x, Head(s), reverse) THEN <<x>> \o s
    ELSE <<Head(s)>> \o InsertBy(x, Tail(s), reverse)

\* sorted(s, key=SortKey, reverse=reverse): Python's sort is stable, with
\* reverse too, so ties stay in their original order
RECURSIVE SortBy(_, _)
SortBy(s, reverse) ==
    IF s = <<>> THEN <<>>
    ELSE InsertBy(s[Len(s)], SortBy(SubSeq(s, 1, Len(s) - 1), reverse),
                  reverse)

\* sorted_legend with the fault of leaving out reverse=True
sorted_ascending(s) == SortBy(s, FALSE)

\* line 329: sorted(legend_order, key=..., reverse=True)
sorted_legend(s) == SortBy(s, TRUE)

InitGraph ==
    /\ gpc = "rooms"
    /\ legend_order = <<>>
    /\ legend = <<>>

\* lines 369-375: one pass of the loop over the user's rooms; the eta is
\* what draw_room_line returned for the room
draw_graph_room ==
    /\ gpc = "rooms"
    /\ Len(legend_order) < MaxRooms
    /\ \E eta \in {None} \cup {Some(e) : e \in EtaValues} :
          legend_order' =
              Append(legend_order, [eta |-> eta, idx |-> Len(legend_order)])
    /\ UNCHANGED <<gpc, legend, notGraph>>

\* lines 329-330
decorate_graph ==
    /\ gpc = "rooms"
    /\ legend' = sorted_legend(legend_order)
    /\ gpc' = "decorated"
    /\ UNCHANGED <<legend_order, notGraph>>

----------------------------------------------------------------------------
(* Spec: the ingestion of one room's row by concurrent callers             *)
(*                                                                         *)
(* Every caller is a run of the script with a session of its own           *)
(* (autocommit off, as MySQLdb connects).  All callers scrape the same     *)
(* room (one ext_id) on the same date, so entry's key (room_id, date) is   *)
(* written as the room_id alone.  The database is InnoDB with the unique   *)
(* indexes the source names (room.ext_id, entry(room_id, date)):           *)
(*   - a plain SELECT at REPEATABLE READ is a snapshot read: it sees       *)
(*     committed rows only and takes no lock;                              *)
(*   - SELECT ... FOR UPDATE locks the row it finds, waiting while another *)
(*     transaction holds it or has inserted it and not committed; finding  *)
(*     no row it takes a gap lock, which never waits and which any number  *)
(*     of transactions hold together;                                      *)
(*   - INSERT waits while another transaction holds a gap lock on the key  *)
(*     or holds an uncommitted row with the same unique key; a committed   *)
(*     row with the same unique key is error 1062;                         *)
(*   - two transactions waiting for each other are a deadlock: InnoDB      *)
(*     rolls one of them back with error 1213.                             *)
(* An exception is not caught anywhere (main has no try), so the run ends  *)
(* and its connection closes, which rolls its transaction back.            *)
(***************************************************************************)

Callers == 1..NumCallers
ExtId == 1                      \* the scraped room's id on the website
Capacities == {1, 2}
QueuePositions == {1, 2}

Sites == [typestr : TypeStrs, description : Descriptions]

NoRec == [room_id |-> None, capacity |-> 0, pos |-> 0]

Ended(p) == cpc[p] \in {"done", "raised"}

InitIngest ==
    /\ site \in Sites
    /\ cpc = [p \in Callers |-> "idle"]
    /\ rec = [p \in Callers |-> NoRec]
    /\ update = [p \in Callers |-> FALSE]
    /\ existing_row = [p \in Callers |-> None]
    /\ outcome = [p \in Callers |-> "None"]
    /\ wrote = [p \in Callers |-> FALSE]
    /\ isolation = [p \in Callers |-> "repeatable read"]
    /\ runs = [p \in Callers |-> 0]
    /\ room = {}
    /\ room_autoinc = 1
    /\ entry = {}
    /\ locks = {}
    /\ first_vals = None
    /\ updated = FALSE

\* COMMIT: the transaction's rows become visible, its locks go
Committed(table, p) ==
    {[r EXCEPT !.tx = 0] : r \in {x \in table : x.tx = p}}
        \cup {x \in table : x.tx # p}

\* ROLLBACK: the transaction's uncommitted rows and its locks go
RolledBack(table, p) == {x \in table : x.tx # p}

Released(p) == {l \in locks : l.tx # p}

\* An uncaught exception in caller p: the run ends, the connection closes
\* and the server rolls the open transaction back
Raise(p, exception) ==
    /\ cpc' = [cpc EXCEPT ![p] = "raised"]
    /\ outcome' = [outcome EXCEPT ![p] = exception]
    /\ room' = RolledBack(room, p)
    /\ entry' = RolledBack(entry, p)
    /\ locks' = Released(p)

\* lines 398-400: the next scraped row, in a run of the script with or
\* without --update
scrape_row(p) ==
    /\ cpc[p] \in {"idle", "done", "raised"}
    /\ runs[p] < MaxRuns
    /\ runs' = [runs EXCEPT ![p] = @ + 1]
    /\ \E cap \in Capacities, pos \in QueuePositions :
          rec' = [rec EXCEPT ![p] = [room_id |-> None, capacity |-> cap,
                                     pos |-> pos]]
    /\ \E u \in BOOLEAN : update' = [update EXCEPT ![p] = u]
    /\ existing_row' = [existing_row EXCEPT ![p] = None]
    /\ outcome' = [outcome EXCEPT ![p] = "None"]
    /\ wrote' = [wrote EXCEPT ![p] = FALSE]
    /\ isolation' = [isolation EXCEPT ![p] = "repeatable read"]
    /\ cpc' = [cpc EXCEPT ![p] = "g_select"]
    /\ UNCHANGED <<site, room, room_autoinc, entry, locks, first_vals, updated,
                   notIngest>>

\* lines 147-151: select id from room where ext_id = %s
get_room_select(p) ==
    /\ cpc[p] = "g_select"
    /\ LET found == {r \in room : r.ext_id = ExtId /\ r.tx \in {0, p}}
       IN  IF found # {}
           THEN /\ \E r \in found :
                      rec' = [rec EXCEPT ![p].room_id = Some(r.id)]
                /\ cpc' = [cpc EXCEPT ![p] = "g_commit"]
           ELSE /\ rec' = rec
                /\ cpc' = [cpc EXCEPT ![p] = "g_insert"]
    /\ UNCHANGED <<site, update, existing_row, outcome, wrote, isolation, runs,
                   room, room_autoinc, entry, locks, first_vals, updated,
                   notIngest>>

\* lines 153-157: insert into room, rec.room_id = cur.lastrowid
get_room_insert(p) ==
    /\ cpc[p] = "g_insert"
    /\ ~\E r \in room : r.ext_id = ExtId /\ r.tx \notin {0, p}
    /\ room_autoinc' = room_autoinc + 1
    /\ IF \E r \in room : r.ext_id = ExtId
       THEN \* 1062, Duplicate entry for the unique index on ext_id
            /\ Raise(p, "IntegrityError")
            /\ UNCHANGED rec
       ELSE /\ room' = room \cup {[id |-> room_autoinc, ext_id |-> ExtId,
                                   tx |-> p]}
            /\ rec' = [rec EXCEPT ![p].room_id = Some(room_autoinc)]
            /\ cpc' = [cpc EXCEPT ![p] = "g_commit"]
            /\ UNCHANGED <<outcome, entry, locks>>
    /\ UNCHANGED <<site, update, existing_row, wrote, isolation, runs,
                   first_vals, updated,
                   notIngest>>

\* line 159: db.commit()
get_room_commit(p) ==
    /\ cpc[p] = "g_commit"
    /\ room' = Committed(room, p)
    /\ entry' = Committed(entry, p)
    /\ locks' = Released(p)
    /\ cpc' = [cpc EXCEPT ![p] = "u_serializable"]
    /\ UNCHANGED <<site, rec, update, existing_row, outcome, wrote, isolation,
                   runs, room_autoinc, first_vals, updated,
                   notIngest>>

KeyRows(p) == {e \in entry : Some(e.room_id) = rec[p].room_id}

GapHolders(p) ==
    {l.tx : l \in {x \in locks : /\ x.kind = "gap"
                                 /\ Some(x.room_id) = rec[p].room_id
                                 /\ x.tx # p}}

\* line 165: set session transaction isolation level serializable
entry_serializable(p) ==
    /\ cpc[p] = "u_serializable"
    /\ isolation' = [isolation EXCEPT ![p] = "serializable"]
    /\ cpc' = [cpc EXCEPT ![p] = "u_select"]
    /\ UNCHANGED <<site, rec, update, existing_row, outcome, wrote, runs, room,
                   room_autoinc, entry, locks, first_vals, updated,
                   notIngest>>

\* lines 167-172: select capacity, pos from entry where room_id = %s and
\* date = %s for update.  It waits, the session already serializable, while
\* another transaction holds the row's lock or an uncommitted row of the key.
entry_select(p) ==
    /\ cpc[p] = "u_select"
    /\ ~\E e \in KeyRows(p) : e.tx \notin {0, p}
    /\ ~\E l \in locks : /\ l.kind = "rec" /\ l.tx # p
                         /\ Some(l.room_id) = rec[p].room_id
    /\ IF KeyRows(p) = {}
       THEN /\ existing_row' = [existing_row EXCEPT ![p] = None]
            /\ locks' = locks \cup {[tx |-> p, kind |-> "gap",
                                     room_id |-> rec[p].room_id[1]]}
            /\ cpc' = [cpc EXCEPT ![p] = "u_insert"]
       ELSE /\ \E e \in KeyRows(p) :
                  existing_row' =
                      [existing_row EXCEPT ![p] = Some(<<e.capacity, e.pos>>)]
            /\ locks' = locks \cup {[tx |-> p, kind |-> "rec",
                                     room_id |-> rec[p].room_id[1]]}
            /\ cpc' = [cpc EXCEPT ![p] = "u_existing"]
    /\ UNCHANGED <<site, rec, update, outcome, wrote, isolation, runs, room,
                   room_autoinc, entry, first_vals, updated,
                   notIngest>>

\* lines 173-178: existing_row is None, insert into entry.  The insert
\* waits for the gap locks of the other transactions; when one of those is
\* itself waiting to insert, the two are deadlocked and InnoDB rolls either
\* back with error 1213.
entry_insert(p) ==
    /\ cpc[p] \in {"u_insert", "u_insert_wait"}
    /\ \/ /\ GapHolders(p) = {}
          /\ entry' = entry \cup {[room_id |-> rec[p].room_id[1],
                                   capacity |-> rec[p].capacity,
                                   pos |-> rec[p].pos, tx |-> p]}
          /\ first_vals' = Some(<<rec[p].capacity, rec[p].pos>>)
          /\ updated' = FALSE
          /\ wrote' = [wrote EXCEPT ![p] = TRUE]
          /\ outcome' = [outcome EXCEPT ![p] = "Created"]
          /\ cpc' = [cpc EXCEPT ![p] = "u_commit"]
          /\ UNCHANGED <<room, locks>>
       \/ /\ cpc[p] = "u_insert"
          /\ GapHolders(p) # {}
          /\ \A q \in GapHolders(p) : cpc[q] # "u_insert_wait"
          /\ cpc' = [cpc EXCEPT ![p] = "u_insert_wait"]
          /\ UNCHANGED <<outcome, wrote, room, entry, locks, first_vals, updated>>
       \/ /\ cpc[p] = "u_insert"
          /\ \E q \in GapHolders(p) :
                /\ cpc[q] = "u_insert_wait"
                /\ \/ Raise(p, "Deadlock")
                   \/ /\ cpc' = [cpc EXCEPT ![q] = "raised",
                                            ![p] = "u_insert_wait"]
                      /\ outcome' = [outcome EXCEPT ![q] = "Deadlock"]
                      /\ room' = RolledBack(room, q)
                      /\ entry' = RolledBack(entry, q)
                      /\ locks' = Released(q)
          /\ UNCHANGED <<wrote, first_vals, updated>>
    /\ UNCHANGED <<site, rec, update, existing_row, isolation, runs,
                   room_autoinc,
                   notIngest>>

\* lines 179-200: a row exists.  The label of the message is built first
\* (abbrev_room), then the values are compared.
entry_existing(p) ==
    /\ cpc[p] = "u_existing"
    /\ LET label == abbrev_room(site.typestr, site.description)
           existing_capacity == existing_row[p][1][1]
           existing_pos == existing_row[p][1][2]
       IN  IF label = None
           THEN /\ Raise(p, "KeyError")
                /\ UNCHANGED <<wrote, updated>>
           ELSE /\ cpc' = [cpc EXCEPT ![p] = "u_commit"]
                /\ IF existing_capacity # rec[p].capacity
                        \/ existing_pos # rec[p].pos
                   THEN IF update[p]
                        THEN /\ entry' =
                                   {IF e \in KeyRows(p)
                                    THEN [e EXCEPT !.capacity = rec[p].capacity,
                                                   !.pos = rec[p].pos]
                                    ELSE e : e \in entry}
                             /\ wrote' = [wrote EXCEPT ![p] = TRUE]
                             /\ updated' = TRUE
                             /\ outcome' = [outcome EXCEPT ![p] = "Updated"]
                        ELSE /\ outcome' = [outcome EXCEPT ![p] = "Conflict"]
                             /\ UNCHANGED <<entry, wrote, updated>>
                   ELSE /\ outcome' = [outcome EXCEPT ![p] = "Unchanged"]
                        /\ UNCHANGED <<entry, wrote, updated>>
                /\ UNCHANGED <<room, locks>>
    /\ UNCHANGED <<site, rec, update, existing_row, isolation, runs,
                   room_autoinc, first_vals,
                   notIngest>>

\* line 202: db.commit()
entry_commit(p) ==
    /\ cpc[p] = "u_commit"
    /\ room' = Committed(room, p)
    /\ entry' = Committed(entry, p)
    /\ locks' = Released(p)
    /\ cpc' = [cpc EXCEPT ![p] = "u_repeatable_read"]
    /\ UNCHANGED <<site, rec, update, existing_row, outcome, wrote, isolation,
                   runs, room_autoinc, first_vals, updated,
                   notIngest>>

\* line 203: set session transaction isolation level repeatable read; the
\* call returns
entry_repeatable_read(p) ==
    /\ cpc[p] = "u_repeatable_read"
    /\ isolation' = [isolation EXCEPT ![p] = "repeatable read"]
    /\ cpc' = [cpc EXCEPT ![p] = "done"]
    /\ UNCHANGED <<site, rec, update, existing_row, outcome, wrote, runs, room,
                   room_autoinc, entry, locks, first_vals, updated,
                   notIngest>>

----------------------------------------------------------------------------
(* SpecMain: main's loop over the users.  No call in main, in              *)
(* scrape_queue_positions or in draw_graph is inside a try: an exception   *)
(* raised for one user's row or room ends the run.                         *)

Users == 1..NumUsers
UserRows == 1..NumRows

\* The step that raises for a user: login_and_get_rows (the site is down or
\* its markup changed), create_or_update_entry on one of the user's rows
\* (KeyError of abbrev_room, a deadlock) or draw_room_line on one of the
\* user's rooms (OverflowError of regress, KeyError of abbrev_room)
NoFault == [stage |-> "none", row |-> 0]
Faults ==
    {NoFault, [stage |-> "login", row |-> 0]}
        \cup [stage : {"entry", "room_line"}, row : UserRows]

InitMain ==
    /\ mpc = "start"
    /\ args \in [scrape : BOOLEAN, graph : BOOLEAN]
    /\ fault \in [Users -> Faults]
    /\ ui = 0 /\ ri = 0
    /\ scraped = {} /\ drawn = {} /\ graphed = {}

\* lines 424-435: nothing to do without --scrape or --graph
main_start ==
    /\ mpc = "start"
    /\ IF ~args.scrape /\ ~args.graph
       THEN mpc' = "exited" /\ ui' = ui
       ELSE mpc' = "user" /\ ui' = 1
    /\ UNCHANGED <<args, fault, ri, scraped, drawn, graphed, notMain>>

\* lines 438-441 and 397: the loop's next user, whose first step is the
\* scrape (it starts with login_and_get_rows) or, without --scrape, the graph
main_user ==
    /\ mpc = "user"
    /\ IF ui > NumUsers
       THEN mpc' = "finished" /\ ri' = ri
       ELSE IF args.scrape
       THEN IF fault[ui].stage = "login"
            THEN mpc' = "crashed" /\ ri' = ri
            ELSE mpc' = "scrape" /\ ri' = 1
       ELSE mpc' = "graph" /\ ri' = 1
    /\ UNCHANGED <<args, fault, ui, scraped, drawn, graphed, notMain>>

\* lines 398-402: one row of the user's table, or the loop's end
scrape_queue_positions ==
    /\ mpc = "scrape"
    /\ IF ri > NumRows
       THEN /\ IF args.graph
               THEN mpc' = "graph" /\ ri' = 1 /\ ui' = ui
               ELSE mpc' = "user" /\ ri' = ri /\ ui' = ui + 1
            /\ scraped' = scraped
       ELSE IF fault[ui] = [stage |-> "entry", row |-> ri]
       THEN mpc' = "crashed" /\ UNCHANGED <<ri, ui, scraped>>
       ELSE /\ scraped' = scraped \cup {<<ui, ri>>}
            /\ ri' = ri + 1
            /\ UNCHANGED <<mpc, ui>>
    /\ UNCHANGED <<args, fault, drawn, graphed, notMain>>

\* lines 369-392: one room of the user's graph, or the loop's end and the
\* graph's output
draw_graph ==
    /\ mpc = "graph"
    /\ IF ri > NumRows
       THEN /\ graphed' = graphed \cup {ui}
            /\ mpc' = "user" /\ ui' = ui + 1
            /\ UNCHANGED <<ri, drawn>>
       ELSE IF fault[ui] = [stage |-> "room_line", row |-> ri]
       THEN mpc' = "crashed" /\ UNCHANGED <<ri, ui, drawn, graphed>>
       ELSE /\ drawn' = drawn \cup {<<ui, ri>>}
            /\ ri' = ri + 1
            /\ UNCHANGED <<mpc, ui, graphed>>
    /\ UNCHANGED <<args, fault, scraped, notMain>>

----------------------------------------------------------------------------
(* The specifications.  Each runs one part of the program and leaves the   *)
(* variables of the other parts at rest.                                   *)

IngestIdle ==
    /\ site = [typestr |-> "Einzelzimmer", description |-> DescParen]
    /\ cpc = [p \in Callers |-> "idle"]
    /\ rec = [p \in Callers |-> NoRec]
    /\ update = [p \in Callers |-> FALSE]
    /\ existing_row = [p \in Callers |-> None]
    /\ outcome = [p \in Callers |-> "None"]
    /\ wrote = [p \in Callers |-> FALSE]
    /\ isolation = [p \in Callers |-> "repeatable read"]
    /\ runs = [p \in Callers |-> 0]
    /\ room = {}
    /\ room_autoinc = 1
    /\ entry = {}
    /\ locks = {}
    /\ first_vals = None
    /\ updated = FALSE

ProjIdle ==
    /\ ppc = "idle" /\ exc = "None"
    /\ room_type = "Einzelzimmer" /\ room_description = DescParen
    /\ rows = <<>> /\ rl = NoRegression /\ fit = NoFit

GraphIdle == gpc = "idle" /\ legend_order = <<>> /\ legend = <<>>

MainIdle ==
    /\ mpc = "idle"
    /\ args = [scrape |-> FALSE, graph |-> FALSE]
    /\ fault = [u \in Users |-> NoFault]
    /\ ui = 0 /\ ri = 0
    /\ scraped = {} /\ drawn = {} /\ graphed = {}

Init == InitIngest /\ MainIdle /\ ProjIdle /\ GraphIdle

Next ==
    \E p \in Callers :
        \/ scrape_row(p)
        \/ get_room_select(p) \/ get_room_insert(p) \/ get_room_commit(p)
        \/ entry_serializable(p) \/ entry_select(p) \/ entry_insert(p)
        \/ entry_existing(p) \/ entry_commit(p) \/ entry_repeatable_read(p)

Spec == Init /\ [][Next]_vars

InitP == InitProj /\ IngestIdle /\ MainIdle /\ GraphIdle

NextProj == draw_room_line

SpecProj == InitP /\ [][NextProj]_vars

InitG == InitGraph /\ IngestIdle /\ MainIdle /\ ProjIdle

InitM == InitMain /\ IngestIdle /\ ProjIdle /\ GraphIdle

NextMain == main_start \/ main_user \/ scrape_queue_positions \/ draw_graph

SpecMain == InitM /\ [][NextMain]_vars

NextGraph == draw_graph_room \/ decorate_graph

SpecGraph == InitG /\ [][NextGraph]_vars

----------------------------------------------------------------------------
(* Claims about the ingestion and about main *)

FoundRow(p) == existing_row[p] # None

SameValues(p) ==
    FoundRow(p) /\ existing_row[p] = Some(<<rec[p].capacity, rec[p].pos>>)

\* C1: of the callers that run create_or_update_entry concurrently on a key
\* with no stored row exactly one takes the insert path, every other caller
\* finds the inserted row and ends as Unchanged, Updated or Conflict, and
\* entry never holds two rows for the key.
C1_OneInsertOthersSeeRow ==
    /\ \A p, q \in Callers :
          outcome[p] \in {"Created", "Deadlock"}
              /\ outcome[q] \in {"Created", "Deadlock"} => p = q
    /\ \A p \in Callers : outcome[p] # "Deadlock"
    /\ \A e1, e2 \in entry : e1.room_id = e2.room_id => e1 = e2

\* C2: callers that run get_or_create_room_id concurrently for an ext_id not
\* yet in room create at most one row for it, and every caller returns
\* normally with the same room_id.
C2_LoserSeesWinnersRoom ==
    /\ \A r1, r2 \in room : r1.ext_id = r2.ext_id => r1 = r2
    /\ \A p \in Callers : outcome[p] # "IntegrityError"
    /\ \A p, q \in Callers :
          cpc[p] \notin {"idle", "g_select", "g_insert", "raised"}
              /\ cpc[q] \notin {"idle", "g_select", "g_insert", "raised"}
              => rec[p].room_id = rec[q].room_id

\* C3: a call that finds the row stored with its own (capacity, pos) ends as
\* Unchanged and issues no insert or update.
C3_IdenticalIsUnchanged ==
    \A p \in Callers :
        SameValues(p)
            /\ cpc[p] \in {"u_commit", "u_repeatable_read", "done", "raised"} =>
            /\ outcome[p] = "Unchanged"
            /\ ~wrote[p]
            /\ \A e \in KeyRows(p) : e.tx # p

\* C3 for the type strings abbrev_room knows: holds
C3_IdenticalIsUnchangedKnownType ==
    site.typestr \in DOMAIN types => C3_IdenticalIsUnchanged

\* C4: the stored (capacity, pos) stay those of the insert until a call with
\* update=True and differing values changes them to its own; a call with
\* differing values and update=False ends as Conflict and writes nothing.
C4_ImmutableUnlessUpdate ==
    /\ first_vals # None /\ ~updated =>
          \A e \in entry : <<e.capacity, e.pos>> = first_vals[1]
    /\ \A p \in Callers :
          /\ outcome[p] = "Updated" =>
                /\ update[p] /\ FoundRow(p) /\ ~SameValues(p)
                /\ cpc[p] = "u_commit" =>
                      \A e \in KeyRows(p) :
                          <<e.capacity, e.pos>> = <<rec[p].capacity, rec[p].pos>>
          /\ FoundRow(p) /\ ~SameValues(p) /\ ~update[p]
                /\ cpc[p] \in {"u_commit", "u_repeatable_read", "done",
                              "raised"} =>
                    outcome[p] = "Conflict" /\ ~wrote[p]

\* C4 for the type strings abbrev_room knows: holds
C4_ImmutableUnlessUpdateKnownType ==
    site.typestr \in DOMAIN types => C4_ImmutableUnlessUpdate

\* C5: a call that finds a row for (room_id, date) raises no exception
\* whatever the record's type string and description: it commits and returns
\* as Unchanged, Updated or Conflict.
C5_ExistingRowNeverRaises ==
    \A p \in Callers :
        FoundRow(p) /\ Ended(p) =>
            /\ cpc[p] = "done"
            /\ outcome[p] \in {"Unchanged", "Updated", "Conflict"}
            /\ isolation[p] = "repeatable read"

\* C6: when the run is over, every user whose own steps do not fail has been
\* processed: scraped with --scrape, graphed with --graph, wherever in the
\* users list another user's step failed.
C6_FailuresIsolated ==
    mpc \in {"finished", "crashed"} =>
        \A u \in Users :
            fault[u] = NoFault =>
                /\ args.scrape => \A r \in UserRows : <<u, r>> \in scraped
                /\ args.graph => u \in graphed

----------------------------------------------------------------------------
(* Claims about the legend order and the projection *)

IsPermutation(s, t) ==
    /\ Len(s) = Len(t)
    /\ \A i \in 1..Len(s) :
          Cardinality({j \in 1..Len(s) : s[j] = s[i]})
              = Cardinality({j \in 1..Len(t) : t[j] = s[i]})

\* C7 as stated: the report lists rooms with a defined ETA in ascending ETA
\* order, and every room with an undefined ETA after all rooms with a
\* defined one.
C7_AscendingUndefinedLast ==
    gpc = "decorated" =>
        \A i, j \in 1..Len(legend) :
            i < j =>
                /\ (legend[i].eta # None /\ legend[j].eta # None
                        => legend[i].eta[1] <= legend[j].eta[1])
                /\ ~(legend[i].eta = None /\ legend[j].eta # None)

\* C7 amended: the legend holds the collected rooms in descending order of
\* their sort key (the ETA, or 2199-01-01 when it is undefined), rooms with
\* equal keys in room order; so a room with an undefined ETA comes before
\* every room whose ETA is earlier than 2199-01-01.
C7_DescendingUndefinedFirst ==
    gpc = "decorated" =>
        /\ IsPermutation(legend, legend_order)
        /\ \A i, j \in 1..Len(legend) :
              i < j =>
                  /\ SortKey(legend[i]) >= SortKey(legend[j])
                  /\ (SortKey(legend[i]) = SortKey(legend[j])
                          => legend[i].idx < legend[j].idx)
                  /\ (legend[j].eta = None /\ legend[i].eta # None
                          => legend[i].eta[1] >= LegendSentinel)
                  /\ (legend[i].eta # None /\ legend[j].eta # None
                          => legend[i].eta[1] >= legend[j].eta[1])

\* C7 witness: a decorated legend with two different defined ETAs and an
\* undefined one
C7_Witness ==
    /\ gpc = "decorated"
    /\ \E i, j, k \in 1..Len(legend_order) :
          /\ legend_order[i].eta # None /\ legend_order[j].eta # None
          /\ legend_order[i].eta[1] < legend_order[j].eta[1]
          /\ legend_order[j].eta[1] < LegendSentinel
          /\ i < j
          /\ legend_order[k].eta = None

\* The two-point history of C8: [(d0, 100), (d0 + 10, 50)], drawn as of
\* d0 + 10
TwoPointHistory ==
    /\ Len(rows) = 2
    /\ rows[1][2] = 100 /\ rows[2][2] = 50
    /\ rows[2][1] = rows[1][1] + 10

\* C8 as stated: m = -5 per day, eta = d0 + 20, and both drifts defined,
\* equal to eta minus the eta as of one day and seven days before.
C8_DriftsDefined ==
    ppc = "drawn" /\ TwoPointHistory =>
        /\ rl.m = Some(<<-5, 1>>)
        /\ rl.eta = Some(rows[1][1] + 20)
        /\ rl.deta_1d # None /\ rl.deta_1w # None
        /\ fit[1][1].eta # None /\ fit[7][1].eta # None
        /\ rl.deta_1d = Some(rl.eta[1] - fit[1][1].eta[1])
        /\ rl.deta_1w = Some(rl.eta[1] - fit[7][1].eta[1])

\* C8 amended: m = -5 per day, c = 100 and eta = d0 + 20; as of one day and
\* seven days before only (d0, 100) is in the window, whose line is flat
\* (m = 0) and has no eta, so both drifts are undefined.
C8_DriftsUndefined ==
    ppc = "drawn" /\ TwoPointHistory =>
        /\ rl.m = Some(<<-5, 1>>)
        /\ rl.c = Some(<<100, 1>>)
        /\ rl.eta = Some(rows[1][1] + 20)
        /\ \A k \in {1, 7} :
              /\ fit[k][1].dates_ltd = <<rows[1][1]>>
              /\ fit[k][1].m = Some(<<0, 1>>)
              /\ fit[k][1].eta = None
        /\ rl.deta_1d = None /\ rl.deta_1w = None

\* C8 witness: the two-point history has been drawn and has its eta
C8_Witness ==
    ppc = "drawn" /\ TwoPointHistory /\ rl.eta = Some(rows[1][1] + 20)

\* abs(m) <= 1e-8, for m in lowest terms
NearZero(m) == m[1] = 0 \/ (m[2] \div Abs(m[1])) >= InvEps

\* The slope regress fits to the whole history (delta_days = 0)
FullWindowSlope ==
    LET dates == RowDates(rows)
        sc    == StepCorrection(dates, RowPositions(rows))
    IN  FitLine(dates[1], dates, sc.positions_ltd).m

\* C9: for a history whose fitted slope is non-negative or near zero
\* regress returns, with no eta, and so compute_regression gives no drift.
C9_EtaOnlyWhenFalling ==
    /\ ppc = "drawn" =>
          /\ \A k \in {0, 1, 7} :
                fit[k][1].m # None
                    /\ (fit[k][1].m[1][1] >= 0 \/ NearZero(fit[k][1].m[1])) =>
                    fit[k][1].eta = None
          /\ (rl.m[1][1] >= 0 \/ NearZero(rl.m[1]) =>
                  rl.eta = None /\ rl.deta_1d = None /\ rl.deta_1w = None)
    /\ ppc = "raised" /\ exc = "OverflowError" =>
          ~(FullWindowSlope[1] >= 0 \/ NearZero(FullWindowSlope))

\* C9, the crash alone: regress raises no OverflowError for a history whose
\* fitted slope is non-negative or near zero.
C9_RisingNeverRaises ==
    ppc = "raised" /\ exc = "OverflowError" =>
        ~(FullWindowSlope[1] >= 0 \/ NearZero(FullWindowSlope))

\* C9, the returned date alone: where regress returns, a non-negative or
\* near-zero slope has no eta.
C9_RisingHasNoEta ==
    ppc = "drawn" =>
        (rl.m[1][1] >= 0 \/ NearZero(rl.m[1]) => rl.eta = None)

\* C9, what the code does: where regress returns, it returns no eta exactly
\* when the window is empty or abs(m) <= 1e-8; a slope above the threshold
\* has an eta whatever its sign (a rising line's eta is min_date +
\* round(-c/m), in the past: a whole day nearest to the line's zero), within
\* datetime.date's range; when the eta of the full window is undefined so
\* are both drifts.  Where the day is out of that range regress raises.
C9_EtaUnlessNearZero ==
    ppc = "drawn" =>
        /\ \A k \in {0, 1, 7} :
              LET r == fit[k][1]
              IN  /\ r.eta = None <=> (r.m = None \/ NearZero(r.m[1]))
                  /\ r.eta # None =>
                        LET q == Rat(-(r.c[1][1] * r.m[1][2]),
                                     r.c[1][2] * r.m[1][1])
                        IN  /\ 2 * Abs((r.eta[1] - rows[1][1]) * q[2] - q[1])
                                    <= q[2]
                            /\ r.eta[1] >= DateMin /\ r.eta[1] <= DateMax
        /\ rl.eta = fit[0][1].eta
        /\ (rl.eta = None => rl.deta_1d = None /\ rl.deta_1w = None)

\* The windows regress fitted for the room drawn
Fitted == {k \in {0, 1, 7} : ppc = "drawn" /\ fit[k][1].m # None}

\* The first observation of window w dated at or after the step date, as a
\* position in the sequence (1 is the first point); 0 if there is none
FirstAtOrAfterStep(w) ==
    IF \E i \in 1..Len(w) : w[i] >= StepDate
    THEN CHOOSE i \in 1..Len(w) :
            /\ w[i] >= StepDate
            /\ \A j \in 1..(i - 1) : w[j] < StepDate
    ELSE 0

\* After the fit the step goes into c only: c = fitted c + step, m as fitted
Rebiased(r) ==
    /\ r.fit_m = Some(FitLine(rows[1][1], r.dates_ltd, r.positions_ltd).m)
    /\ r.fit_c = Some(FitLine(rows[1][1], r.dates_ltd, r.positions_ltd).c)
    /\ r.m = r.fit_m
    /\ r.c[1][1] * r.fit_c[1][2]
          = (r.fit_c[1][1] + r.step * r.fit_c[1][2]) * r.c[1][2]

\* C10 as stated: with idx the first observation at or after the step date,
\* if it exists and is not the last point of the window then
\* step = position[idx] - position[idx-1], taken off every position from idx
\* on; otherwise nothing changes and step = 0.  (Where idx is the first point
\* position[idx-1] does not exist and only "not the last point" is asked.)
C10_StepAtIdx ==
    \A k \in Fitted :
        LET r   == fit[k][1]
            idx == FirstAtOrAfterStep(r.dates_ltd)
        IN  /\ IF idx # 0 /\ idx < Len(r.dates_ltd)
               THEN idx > 1 =>
                       /\ r.step = r.series[idx] - r.series[idx - 1]
                       /\ \A j \in 1..Len(r.series) :
                             r.positions_ltd[j] =
                                 IF j >= idx THEN r.series[j] - r.step
                                 ELSE r.series[j]
               ELSE r.step = 0 /\ r.positions_ltd = r.series
            /\ Rebiased(r)

\* C10 amended: with idx the first observation at or after the step date,
\* if it exists and is neither the first nor the last point of the window
\* then step = position[idx+1] - position[idx], taken off every position
\* from idx+1 on (positions up to idx unchanged); otherwise nothing changes
\* and step = 0.  After the fit the step is added to c only, never to m.
C10_StepAfterIdx ==
    \A k \in Fitted :
        LET r   == fit[k][1]
            idx == FirstAtOrAfterStep(r.dates_ltd)
        IN  /\ IF idx > 1 /\ idx < Len(r.dates_ltd)
               THEN /\ r.step = r.series[idx + 1] - r.series[idx]
                    /\ \A j \in 1..Len(r.series) :
                          r.positions_ltd[j] =
                              IF j >= idx + 1 THEN r.series[j] - r.step
                              ELSE r.series[j]
               ELSE r.step = 0 /\ r.positions_ltd = r.series
            /\ Rebiased(r)

\* C10 witness: a window with an observation at or after the step date that
\* is neither first nor last has been fitted with a step that is not 0
C10_Witness ==
    /\ ppc = "drawn"
    /\ LET r   == fit[0][1]
           idx == FirstAtOrAfterStep(r.dates_ltd)
       IN  /\ idx > 1 /\ idx < Len(r.dates_ltd)
           /\ r.step # 0
           /\ r.c # r.fit_c

=============================================================================
